---- MODULE Spec2Model ----
(***************************************************************************)
(* Model of the HoMM3 map monster scanner of RajMoorthyBiz/HoMM3:          *)
(*   src/h3_map_editor-main/RajanHoAEditor_V1.py  (parse_map_file,         *)
(*        GetMonsterProperty, SetMonsterProperty, main)                    *)
(*   src/RajanHoAEditor.py                        (parse_map_file, main)   *)
(*                                                                         *)
(* Offsets are 0-based as in Python; a byte buffer is a sequence of        *)
(* naturals below 256 and d[p+1] is the byte at offset p.                  *)
(***************************************************************************)
EXTENDS Integers, Sequences, FiniteSets, TLC

VARIABLES
    fs,        \* the files on disk: path -> [exists, bytes]
    fs0,       \* the files on disk when the entry point was called (history)
    prog,      \* the entry point that was called
    filename,  \* its filename argument
    pc,        \* position of the running call
    variant,   \* which copy of the scan loops is running: "V1", "gzip", "raw"
    data,      \* parse_map_file's local `data`: [some, bytes] (some = FALSE is None)
    monsters,  \* parse_map_file's local `monsters`
    sigIx,     \* index of the signature pass in Signatures
    pos,       \* the search cursor `pos`
    exc,       \* the exception in flight, "none" when there is none
    msgs,      \* the status lines printed by the callers
    printed,   \* the monster records printed to the user
    evaluated  \* the candidates whose try block was entered, in order: [sig, off] (history)

vars == <<fs, fs0, prog, filename, pc, variant, data, monsters, sigIx, pos,
          exc, msgs, printed, evaluated>>

----------------------------------------------------------------------------
(* Bounds of the model and constants of the program *)

\* len(cd.NAME): the length of the external creature-name table
NameLen == 100
\* the longest run of zero bytes put in front of the first object of a buffer
MaxPre == 1

\* od.ID.Monster, "type 54 = 0x36"
Monster == 54
\* Disposition.Aggressive
Aggressive == 2
\* the upper bound of a "reasonable quantity"
MaxQuantity == 1000

----------------------------------------------------------------------------
(* Bytes *)

Min(S) == CHOOSE x \in S : \A y \in S : x <= y

RECURSIVE Pow256(_)
Pow256(k) == IF k = 0 THEN 1 ELSE 256 * Pow256(k - 1)

\* n.to_bytes(w, byteorder='little')
ToBytes(n, w) == [i \in 1..w |-> (n \div Pow256(i - 1)) % 256]

\* int.from_bytes(s, byteorder='little')
RECURSIVE FromBytes(_)
FromBytes(s) == IF s = <<>> THEN 0 ELSE s[1] + 256 * FromBytes(Tail(s))

\* the Python slice d[a:b] for 0 <= a <= b: it is cut at the end of d, never raises
Slice(d, a, b) == SubSeq(d, a + 1, IF b < Len(d) THEN b ELSE Len(d))

\* sig occurs in d at offset p
OccursAt(d, sig, p) ==
    /\ p >= 0
    /\ p + Len(sig) <= Len(d)
    /\ \A i \in 1..Len(sig) : d[p + i] = sig[i]

\* d.find(sig, start): the lowest offset >= start where sig occurs, or -1
Find(d, sig, start) ==
    LET hits == {p \in start..(Len(d) - Len(sig)) : OccursAt(d, sig, p)}
    IN  IF hits = {} THEN -1 ELSE Min(hits)

----------------------------------------------------------------------------
(* The container: gzip *)

\* the two magic bytes 1f 8b that open a gzip member
GzipMagic == <<31, 139>>

\* a gzip file holding payload b (header and body; the model keeps the magic
\* bytes and stores the body uncompressed)
GzipFile(b) == GzipMagic \o b

\* gzip_open(filename, 'rb').read() on the bytes f of an existing file:
\* an empty file reads as empty, a file without the magic raises
Gunzip(f) ==
    IF f = <<>> THEN [ok |-> TRUE, bytes |-> <<>>]
    ELSE IF Len(f) >= 2 /\ SubSeq(f, 1, 2) = GzipMagic
         THEN [ok |-> TRUE, bytes |-> SubSeq(f, 3, Len(f))]
         ELSE [ok |-> FALSE, bytes |-> <<>>]

Missing == [exists |-> FALSE, bytes |-> <<>>]
File(b) == [exists |-> TRUE, bytes |-> b]
None == [some |-> FALSE, bytes |-> <<>>]
Some(b) == [some |-> TRUE, bytes |-> b]

\* the path read by both main functions, and the fixed path written by SetMonsterProperty
InputPath == "Do.h3m"
OutputPath == "Do2.h3m"
Paths == {InputPath, OutputPath}

----------------------------------------------------------------------------
(* The scan *)

\* a slip of RandomTypes: the tags listed in descending order
RandomTypesDescending == <<164, 163, 162, 75, 74, 73, 72, 71>>

\* a slip of RandomTypes: 71 typed twice, 72 left out
RandomTypesRepeated == <<71, 71, 73, 74, 75, 162, 163, 164>>

\* the random-monster tags, in the order of the for loop
RandomTypes == <<71, 72, 73, 74, 75, 162, 163, 164>>

\* the signature passes in program order: the concrete monster, then the for loop
Signatures == <<Monster>> \o RandomTypes

\* a slip of InBounds: `<=` for `<`
InBoundsInclusive(d, p, k) == p + k <= Len(d)

\* the guard `pos + k < len(data)` in front of each field read
InBounds(d, p, k) == p + k < Len(d)

\* a slip of MonsterMinQuantity: the bound of the raw copy used in every copy
MonsterMinQuantityOne(v) == 1

\* the lower bound of the quantity test of a concrete monster, per copy of the loop
MonsterMinQuantity(v) == IF v = "raw" THEN 1 ELSE 0

\* the lower bound of the quantity test of a random monster, per copy of the loop
RandomMinQuantity(v) == IF v = "gzip" THEN 0 ELSE 1

\* a slip of MonsterAccepted: `subtype <= len(cd.NAME)`
MonsterAcceptedOffByOne(v, subtype, quantity) ==
    /\ 0 <= subtype /\ subtype <= NameLen
    /\ MonsterMinQuantity(v) <= quantity /\ quantity <= MaxQuantity

\* `0 <= subtype < len(cd.NAME) and lo <= quantity <= 1000`
MonsterAccepted(v, subtype, quantity) ==
    /\ 0 <= subtype /\ subtype < NameLen
    /\ MonsterMinQuantity(v) <= quantity /\ quantity <= MaxQuantity

\* `lo <= quantity <= 1000`
RandomAccepted(v, quantity) ==
    RandomMinQuantity(v) <= quantity /\ quantity <= MaxQuantity

\* a slip of AddRecord: monsters.insert(0, r)
AddRecordInFront(ms, r) == <<r>> \o ms

\* monsters.append(r)
AddRecord(ms, r) == Append(ms, r)

\* the body of the try block of the concrete-monster loop for a match at p:
\* the records to append (none or one). `off` is the value of pos at the append.
MonsterCandidate(v, d, p) ==
    IF InBounds(d, p, 6) /\ InBounds(d, p, 8)
    THEN LET subtype == FromBytes(Slice(d, p + 4, p + 6))
             quantity == FromBytes(Slice(d, p + 6, p + 8))
         IN  IF MonsterAccepted(v, subtype, quantity)
             THEN <<[type |-> Monster, subtype |-> subtype, quantity |-> quantity,
                     disposition |-> Aggressive, off |-> p]>>
             ELSE <<>>
    ELSE <<>>

\* the body of the try block of a random-monster loop for a match at p
RandomCandidate(v, t, d, p) ==
    IF InBounds(d, p, 6)
    THEN LET quantity == FromBytes(Slice(d, p + 4, p + 6))
         IN  IF RandomAccepted(v, quantity)
             THEN <<[type |-> t, quantity |-> quantity,
                     disposition |-> Aggressive, off |-> p]>>
             ELSE <<>>
    ELSE <<>>

\* a slip of Advance: `pos += 1` left out
AdvanceNot(p) == p

\* a slip of Advance: the cursor moved past the fields of the candidate
AdvancePastFields(p) == p + 8

\* `pos += 1`
Advance(p) == p + 1

----------------------------------------------------------------------------
(* The callers *)

\* a slip of NoMonsters: the early return left out
NoMonstersNever(ms) == FALSE

\* `if not monster_objects`
NoMonsters(ms) == ms = <<>>

\* a slip of WrittenBytes: the buffer compressed again before it is written
WrittenBytesCompressed(d) == GzipFile(d)

\* the bytes SetMonsterProperty hands to f.write
WrittenBytes(d) == d

\* the hard-coded "representative monster data" of RajanHoAEditor.main
\* (cd.ID.Pikeman, Archer, Griffin, Swordsman, Angel, Black_Dragon; od.ID.Random_Monster)
DemoMonsters ==
    << [type |-> Monster, subtype |-> 0,  quantity |-> 25, disposition |-> Aggressive],
       [type |-> Monster, subtype |-> 2,  quantity |-> 18, disposition |-> Aggressive],
       [type |-> Monster, subtype |-> 4,  quantity |-> 10, disposition |-> Aggressive],
       [type |-> Monster, subtype |-> 6,  quantity |-> 15, disposition |-> Aggressive],
       [type |-> Monster, subtype |-> 12, quantity |-> 5,  disposition |-> Aggressive],
       [type |-> 71, quantity |-> 12, disposition |-> Aggressive],
       [type |-> Monster, subtype |-> 83, quantity |-> 3,  disposition |-> Aggressive] >>

\* the list RajanHoAEditor.main prints for the list parse_map_file returned
MainMonsterObjects(ms) == IF NoMonsters(ms) THEN DemoMonsters ELSE ms

----------------------------------------------------------------------------
(* The inputs: buffers built from monster objects, bare tags and filler *)

Zeros(n) == [i \in 1..n |-> 0]

\* creature ids written into the generated objects: in the table, and one past it
Ids == {0, NameLen}
\* quantities written into the generated objects: around both ends of the range
Quantities == {0, 1, MaxQuantity, MaxQuantity + 1}
\* the random-monster tags written into the generated objects
RandomTags == {71, 164}

MonsterObject(id, q) == ToBytes(Monster, 4) \o ToBytes(id, 2) \o ToBytes(q, 2)
RandomObject(t, q) == ToBytes(t, 4) \o ToBytes(q, 2)

Objects ==
    {<<>>, ToBytes(Monster, 4), ToBytes(71, 4)}
    \cup {MonsterObject(id, q) : id \in Ids, q \in Quantities}
    \cup {RandomObject(t, q) : t \in RandomTags, q \in Quantities}

\* what follows an object: nothing, one byte, or the ten bytes up to the
\* disposition byte of a concrete monster (offset 18) and that byte
Fillers == {<<>>, <<0>>, Zeros(10) \o <<0>>}

Buffers ==
    {Zeros(a) \o o1 \o f1 \o o2 \o f2 :
        a \in 0..MaxPre, o1 \in Objects, f1 \in Fillers, o2 \in Objects, f2 \in Fillers}

\* what the file at the input path may hold: a gzip file, raw bytes, or nothing
Contents == {File(GzipFile(b)) : b \in Buffers} \cup {File(b) : b \in Buffers} \cup {Missing}

\* the calls: V1's main calls GetMonsterProperty('Do.h3m'); SetMonsterProperty takes any path
Calls ==
    {[prog |-> "GetMonsterProperty", filename |-> InputPath],
     [prog |-> "main", filename |-> InputPath]}
    \cup {[prog |-> "SetMonsterProperty", filename |-> f] : f \in Paths}

----------------------------------------------------------------------------
(* The state machine *)

Init ==
    \E c \in Calls, f \in Contents :
        /\ prog = c.prog
        /\ filename = c.filename
        /\ fs = [p \in Paths |-> IF p = c.filename THEN f ELSE Missing]
        /\ fs0 = fs
        /\ pc = "open_gzip"
        /\ variant = "none"
        /\ data = None
        /\ monsters = <<>>
        /\ sigIx = 1
        /\ pos = 0
        /\ exc = "none"
        /\ msgs = <<>>
        /\ printed = <<>>
        /\ evaluated = <<>>

\* `with gzip_open(filename, 'rb') as f: data = f.read()` and the setup of the first loop
OpenGzip ==
    /\ pc = "open_gzip"
    /\ LET f == fs[filename]
           z == Gunzip(f.bytes)
       IN  IF f.exists /\ z.ok
           THEN /\ data' = Some(z.bytes)
                /\ variant' = IF prog = "main" THEN "gzip" ELSE "V1"
                /\ pc' = "scan"
                /\ exc' = exc
           ELSE /\ exc' = IF f.exists THEN "BadGzipFile" ELSE "FileNotFoundError"
                /\ pc' = "except_gzip"
                /\ UNCHANGED <<data, variant>>
    /\ monsters' = <<>>
    /\ sigIx' = 1
    /\ pos' = 0
    /\ UNCHANGED <<fs, fs0, prog, filename, msgs, printed, evaluated>>

\* `except Exception as e:` of the gzip attempt: V1 returns (monsters, None),
\* RajanHoAEditor goes on to the raw read
HandleGzipError ==
    /\ pc = "except_gzip"
    /\ exc' = "none"
    /\ pc' = IF prog = "main" THEN "open_raw" ELSE "return"
    /\ UNCHANGED <<fs, fs0, prog, filename, variant, data, monsters, sigIx, pos, msgs, printed,
                   evaluated>>

\* `with open(filename, 'rb') as f: data = f.read()` of RajanHoAEditor
OpenRaw ==
    /\ pc = "open_raw"
    /\ LET f == fs[filename]
       IN  IF f.exists
           THEN /\ data' = Some(f.bytes)
                /\ variant' = "raw"
                /\ pc' = "scan"
                /\ exc' = exc
           ELSE /\ exc' = "FileNotFoundError"
                /\ pc' = "except_raw"
                /\ UNCHANGED <<data, variant>>
    /\ monsters' = <<>>
    /\ sigIx' = 1
    /\ pos' = 0
    /\ UNCHANGED <<fs, fs0, prog, filename, msgs, printed, evaluated>>

\* `except Exception as e: ... return []` of the raw read
HandleRawError ==
    /\ pc = "except_raw"
    /\ exc' = "none"
    /\ monsters' = <<>>
    /\ pc' = "return"
    /\ UNCHANGED <<fs, fs0, prog, filename, variant, data, sigIx, pos, msgs, printed, evaluated>>

\* one iteration of `while True:` of the concrete-monster loop
ScanMonster ==
    /\ pc = "scan"
    /\ sigIx = 1
    /\ LET p == Find(data.bytes, ToBytes(Monster, 4), pos)
       IN  IF p = -1
           THEN /\ sigIx' = 2
                /\ pos' = 0
                /\ UNCHANGED <<monsters, evaluated>>
           ELSE LET c == MonsterCandidate(variant, data.bytes, p)
                IN  /\ evaluated' = Append(evaluated, [sig |-> sigIx, off |-> p])
                    /\ monsters' = IF c = <<>> THEN monsters ELSE AddRecord(monsters, c[1])
                    /\ pos' = Advance(p)
                    /\ UNCHANGED sigIx
    /\ UNCHANGED <<fs, fs0, prog, filename, pc, variant, data, exc, msgs, printed>>

\* one iteration of `while True:` of the loop of the random-monster tag in turn;
\* after the last tag parse_map_file returns
ScanRandom ==
    /\ pc = "scan"
    /\ sigIx > 1
    /\ LET t == Signatures[sigIx]
           p == Find(data.bytes, ToBytes(t, 4), pos)
       IN  IF p = -1
           THEN /\ IF sigIx = Len(Signatures)
                   THEN pc' = "return" /\ UNCHANGED sigIx
                   ELSE sigIx' = sigIx + 1 /\ UNCHANGED pc
                /\ pos' = 0
                /\ UNCHANGED <<monsters, evaluated>>
           ELSE LET c == RandomCandidate(variant, t, data.bytes, p)
                IN  /\ evaluated' = Append(evaluated, [sig |-> sigIx, off |-> p])
                    /\ monsters' = IF c = <<>> THEN monsters ELSE AddRecord(monsters, c[1])
                    /\ pos' = Advance(p)
                    /\ UNCHANGED <<sigIx, pc>>
    /\ UNCHANGED <<fs, fs0, prog, filename, variant, data, exc, msgs, printed>>

\* GetMonsterProperty after parse_map_file has returned
GetMonsterProperty ==
    /\ pc = "return"
    /\ prog = "GetMonsterProperty"
    /\ IF NoMonsters(monsters)
       THEN /\ msgs' = Append(msgs, "No monster objects found in the map file.")
            /\ UNCHANGED printed
       ELSE /\ printed' = printed \o monsters
            /\ UNCHANGED msgs
    /\ pc' = "done"
    /\ UNCHANGED <<fs, fs0, prog, filename, variant, data, monsters, sigIx, pos, exc, evaluated>>

\* SetMonsterProperty after parse_map_file has returned
SetMonsterProperty ==
    /\ pc = "return"
    /\ prog = "SetMonsterProperty"
    /\ IF NoMonsters(monsters)
       THEN /\ msgs' = Append(msgs, "No monster objects found in the map file.")
            /\ UNCHANGED <<monsters, fs>>
       ELSE /\ monsters' = [i \in DOMAIN monsters |->
                               [monsters[i] EXCEPT !.disposition = Aggressive]]
            /\ fs' = [fs EXCEPT ![OutputPath] = File(WrittenBytes(data.bytes))]
            /\ msgs' = Append(msgs, "Successfully updated the disposition to Aggressive")
    /\ pc' = "done"
    /\ UNCHANGED <<fs0, prog, filename, variant, data, sigIx, pos, exc, printed, evaluated>>

\* RajanHoAEditor.main after parse_map_file has returned
Main ==
    /\ pc = "return"
    /\ prog = "main"
    /\ msgs' = IF NoMonsters(monsters)
               THEN msgs \o <<"No monster objects found in the map file.",
                              "Using representative monster data for demonstration purposes.">>
               ELSE msgs
    /\ printed' = printed \o MainMonsterObjects(monsters)
    /\ pc' = "done"
    /\ UNCHANGED <<fs, fs0, prog, filename, variant, data, monsters, sigIx, pos, exc, evaluated>>

Next ==
    \/ OpenGzip
    \/ HandleGzipError
    \/ OpenRaw
    \/ HandleRawError
    \/ ScanMonster
    \/ ScanRandom
    \/ GetMonsterProperty
    \/ SetMonsterProperty
    \/ Main

Spec == Init /\ [][Next]_vars

\* the buffers of the runs followed to their end: two objects back to back
TerminationBuffers == {o1 \o o2 : o1, o2 \in Objects}

TerminationContents ==
    {File(GzipFile(b)) : b \in TerminationBuffers} \cup {File(b) : b \in TerminationBuffers}
        \cup {Missing}

FairInit == Init /\ fs[filename] \in TerminationContents

\* the program is one thread that runs to its end: a step that can be taken is taken
FairSpec == FairInit /\ [][Next]_vars /\ WF_vars(Next)

----------------------------------------------------------------------------
(* Vocabulary of the properties, stated on the bytes and not through the scan's
   own operators *)

Buf == data.bytes

\* the 16-bit little-endian value stored at offset p of d
Word(d, p) == d[p + 1] + 256 * d[p + 2]

\* the concrete-monster tag 36 00 00 00 occurs at offset p of d
MonsterTagAt(d, p) ==
    /\ p >= 0 /\ p + 4 <= Len(d)
    /\ d[p + 1] = 54 /\ d[p + 2] = 0 /\ d[p + 3] = 0 /\ d[p + 4] = 0

\* parse_map_file has scanned a buffer to the end
Scanned == pc \in {"return", "done"} /\ data.some

\* the positions in the list of the records of type t matched at offset p
RecordsAt(t, p) == {i \in DOMAIN monsters : monsters[i].type = t /\ monsters[i].off = p}

\* SetMonsterProperty has written its output file
Wrote == pc = "done" /\ prog = "SetMonsterProperty" /\ monsters # <<>>

\* the position of a type tag in the documented order of the signature groups
GroupOf(t) ==
    CASE t = 54 -> 1 [] t = 71 -> 2 [] t = 72 -> 3 [] t = 73 -> 4 [] t = 74 -> 5
      [] t = 75 -> 6 [] t = 162 -> 7 [] t = 163 -> 8 [] t = 164 -> 9

----------------------------------------------------------------------------
(* C1 *)

\* C1: in the file SetMonsterProperty has written, the byte at offset p+18 of every
\* accepted concrete monster matched at p is 2 (Aggressive), and the file is as long
\* as the buffer.
C1_DispositionForcedAggressive ==
    Wrote =>
        /\ fs[OutputPath].exists
        /\ Len(fs[OutputPath].bytes) = Len(Buf)
        /\ \A i \in DOMAIN monsters :
              (monsters[i].type = 54 /\ monsters[i].off + 18 < Len(Buf))
                 => fs[OutputPath].bytes[monsters[i].off + 19] = 2

----------------------------------------------------------------------------
(* C2 *)

\* C2 as stated: once the scan is over, every occurrence of the tag 36 00 00 00 at p
\* whose creature id and quantity lie in the buffer, with the id in the table and the
\* quantity in [0,1000], has exactly one concrete-monster record, with that id and
\* that quantity.
C2_WellFormedYieldsOneRecord ==
    Scanned =>
        \A p \in 0..(Len(Buf) - 1) :
            ( /\ MonsterTagAt(Buf, p)
              /\ p + 8 <= Len(Buf)
              /\ Word(Buf, p + 4) < NameLen
              /\ Word(Buf, p + 6) <= 1000 )
            => /\ Cardinality(RecordsAt(54, p)) = 1
               /\ \A i \in RecordsAt(54, p) :
                     /\ monsters[i].subtype = Word(Buf, p + 4)
                     /\ monsters[i].quantity = Word(Buf, p + 6)

\* C2 as amended: the same, for the occurrences that at least one byte follows
\* (p+8 < len) and, in the raw-read copy of RajanHoAEditor, whose quantity is not 0.
C2_WellFormedInsideYieldsOneRecord ==
    Scanned =>
        \A p \in 0..(Len(Buf) - 1) :
            ( /\ MonsterTagAt(Buf, p)
              /\ p + 8 < Len(Buf)
              /\ Word(Buf, p + 4) < NameLen
              /\ Word(Buf, p + 6) <= 1000
              /\ (variant = "raw" => Word(Buf, p + 6) >= 1) )
            => /\ Cardinality(RecordsAt(54, p)) = 1
               /\ \A i \in RecordsAt(54, p) :
                     /\ monsters[i].subtype = Word(Buf, p + 4)
                     /\ monsters[i].quantity = Word(Buf, p + 6)

\* a finished V1 scan that recorded a concrete monster of quantity 0 which at
\* least one byte follows
C2_Witness ==
    /\ Scanned
    /\ variant = "V1"
    /\ \E p \in 0..(Len(Buf) - 1) :
          /\ MonsterTagAt(Buf, p) /\ p + 8 < Len(Buf)
          /\ Word(Buf, p + 4) < NameLen /\ Word(Buf, p + 6) = 0
          /\ RecordsAt(54, p) # {}

----------------------------------------------------------------------------
(* C3 *)

\* C3: every record in the list is valid and carries the values stored in the
\* buffer: a concrete monster's creature id is the word at off+4 and is below the
\* table length, its quantity is the word at off+6; a random monster's quantity is
\* the word at off+4; no quantity is above 1000.
C3_RecordsValidAndUnaltered ==
    data.some =>
        \A i \in DOMAIN monsters :
            LET r == monsters[i]
            IN  /\ r.off >= 0
                /\ r.quantity >= 0 /\ r.quantity <= 1000
                /\ IF r.type = 54
                   THEN /\ r.off + 8 <= Len(Buf)
                        /\ r.subtype = Word(Buf, r.off + 4)
                        /\ r.subtype >= 0 /\ r.subtype < NameLen
                        /\ r.quantity = Word(Buf, r.off + 6)
                   ELSE /\ r.off + 6 <= Len(Buf)
                        /\ r.quantity = Word(Buf, r.off + 4)

\* a finished scan that dropped a candidate whose creature id is the table length,
\* all its other fields being well-formed, and kept another record
C3_Witness ==
    /\ Scanned
    /\ \E p \in 0..(Len(Buf) - 1) :
          /\ MonsterTagAt(Buf, p) /\ p + 8 < Len(Buf)
          /\ Word(Buf, p + 4) = NameLen
          /\ Word(Buf, p + 6) >= 1 /\ Word(Buf, p + 6) <= 1000
          /\ RecordsAt(54, p) = {}
    /\ monsters # <<>>

----------------------------------------------------------------------------
(* C4 *)

\* the candidate the next iteration of the concrete-monster loop evaluates is the
\* occurrence at p
NextMonsterCandidate(p) ==
    /\ pc = "scan" /\ sigIx = 1
    /\ p >= pos
    /\ MonsterTagAt(Buf, p)
    /\ \A q \in pos..(p - 1) : ~MonsterTagAt(Buf, q)

\* C4: an occurrence of the tag 36 00 00 00 at p with p+8 >= len(buffer) never has a
\* record, and the iteration that evaluates it appends nothing, raises nothing and
\* leaves the scan running with the cursor at p+1.
C4_OutOfBoundsSkipped ==
    /\ [](data.some =>
            \A p \in 0..(Len(Buf) - 1) :
                (MonsterTagAt(Buf, p) /\ p + 8 >= Len(Buf)) => RecordsAt(54, p) = {})
    /\ [][\A p \in 0..(Len(Buf) - 1) :
            (NextMonsterCandidate(p) /\ p + 8 >= Len(Buf))
               => /\ monsters' = monsters
                  /\ exc' = "none"
                  /\ pc' = "scan"
                  /\ pos' = p + 1]_vars

\* a finished scan of a buffer that ends right after the quantity of a concrete
\* monster whose fields are all valid: the candidate has no record, and a record
\* found by a later pass is in the list
C4_Witness ==
    /\ pc = "done" /\ data.some
    /\ \E p \in 0..(Len(Buf) - 1) :
          /\ MonsterTagAt(Buf, p) /\ p + 8 = Len(Buf)
          /\ Word(Buf, p + 4) < NameLen
          /\ Word(Buf, p + 6) >= 1 /\ Word(Buf, p + 6) <= 1000
          /\ RecordsAt(54, p) = {}
    /\ \E i \in DOMAIN monsters : monsters[i].type # 54

----------------------------------------------------------------------------
(* C5 *)

\* C5 as stated: the list is in strictly increasing order of match offset.
C5_OffsetsIncreasing ==
    \A i, j \in DOMAIN monsters :
        i < j => monsters[i].off < monsters[j].off

\* C5 as amended: the records of one tag are in strictly increasing order of match
\* offset.
C5_OffsetsIncreasingWithinTag ==
    \A i, j \in DOMAIN monsters :
        (i < j /\ monsters[i].type = monsters[j].type)
           => monsters[i].off < monsters[j].off

\* a returned list with two records of the same tag
C5_Witness ==
    /\ Scanned
    /\ \E i, j \in DOMAIN monsters :
          i < j /\ monsters[i].type = monsters[j].type

----------------------------------------------------------------------------
(* C6 *)

\* C6: at every moment of the scan and after it, the list is grouped by tag in the
\* order 54, 71, 72, 73, 74, 75, 162, 163, 164, and each group is in ascending order
\* of match offset.
C6_GroupsInFixedOrder ==
    \A i, j \in DOMAIN monsters :
        i < j =>
            \/ GroupOf(monsters[i].type) < GroupOf(monsters[j].type)
            \/ /\ monsters[i].type = monsters[j].type
               /\ monsters[i].off < monsters[j].off

\* a returned list where a random monster of tag 71 precedes one of tag 164 that was
\* matched at a lower offset
C6_Witness ==
    /\ Scanned
    /\ \E i, j \in DOMAIN monsters :
          /\ i < j
          /\ monsters[i].type = 71 /\ monsters[j].type = 164
          /\ monsters[i].off > monsters[j].off

----------------------------------------------------------------------------
(* C7 *)

\* SetMonsterProperty has finished on a buffer in which no record was accepted
SetDoneWithoutMatches ==
    pc = "done" /\ prog = "SetMonsterProperty" /\ data.some /\ monsters = <<>>

\* C7 as stated: with zero accepted matches the file at the output path exists and
\* holds exactly the bytes of the buffer.
C7_ZeroMatchesOutputEqualsBuffer ==
    SetDoneWithoutMatches => fs[OutputPath] = File(Buf)

\* C7 as amended: with zero accepted matches nothing is written: every file, the
\* one at the output path included, is as it was before the call.
C7_ZeroMatchesNothingWritten ==
    SetDoneWithoutMatches => fs = fs0

\* SetMonsterProperty has finished on a non-empty buffer with a rejected candidate
\* and no record
C7_Witness ==
    /\ SetDoneWithoutMatches
    /\ \E p \in 0..(Len(Buf) - 1) : MonsterTagAt(Buf, p)
    /\ filename = InputPath

----------------------------------------------------------------------------
(* C8 *)

\* the offsets of the disposition bytes of the accepted matches: p+18 for a
\* concrete monster, p+14 for a random monster
PatchedOffsets ==
    {(IF monsters[i].type = 54 THEN monsters[i].off + 18 ELSE monsters[i].off + 14) :
        i \in DOMAIN monsters}

\* b is byte-identical to a outside the patched disposition bytes
SameOutsidePatches(a, b) ==
    /\ Len(b) = Len(a)
    /\ \A k \in 0..(Len(a) - 1) : k \notin PatchedOffsets => b[k + 1] = a[k + 1]

\* C8 as stated: the written file is byte-identical to the input file outside the
\* patched disposition bytes.
C8_OutputEqualsInputFile ==
    Wrote =>
        /\ fs[OutputPath].exists
        /\ SameOutsidePatches(fs0[filename].bytes, fs[OutputPath].bytes)

\* C8 as amended: the written file is byte-identical, outside the patched disposition
\* bytes, to the payload that the input file holds in gzip form.
C8_OutputEqualsPayload ==
    Wrote =>
        /\ fs[OutputPath].exists
        /\ \E b \in Buffers :
              /\ fs0[filename].bytes = GzipMagic \o b
              /\ SameOutsidePatches(b, fs[OutputPath].bytes)

\* SetMonsterProperty has written the file for a buffer with a concrete monster
\* whose disposition byte lies in the buffer
C8_Witness ==
    /\ Wrote
    /\ filename = InputPath
    /\ \E i \in DOMAIN monsters :
          monsters[i].type = 54 /\ monsters[i].off + 18 < Len(Buf)

----------------------------------------------------------------------------
(* C9 *)

\* C9: the file at the input path always holds what it held before the call.
C9_InputFileNeverOverwritten ==
    fs[filename] = fs0[filename]

----------------------------------------------------------------------------
(* C10 *)

\* C10: when the call is over and the container could not be loaded, there is no
\* buffer, the record list is empty, no monster record was shown to the user and no
\* exception is in flight.
C10_LoadFailureShowsNoMonster ==
    (pc = "done" /\ ~data.some) =>
        /\ monsters = <<>>
        /\ printed = <<>>
        /\ exc = "none"

----------------------------------------------------------------------------
(* C11 *)

\* the random-monster tags of the signature table
RandomTagSet == {71, 72, 73, 74, 75, 162, 163, 164}

\* the 4-byte little-endian encoding of the tag t (below 256) occurs at offset p of d
TagAt(d, t, p) ==
    /\ p >= 0 /\ p + 4 <= Len(d)
    /\ d[p + 1] = t /\ d[p + 2] = 0 /\ d[p + 3] = 0 /\ d[p + 4] = 0

\* q passes the quantity test of every copy of the random-monster loop
InRandomRange(q) == 1 <= q /\ q <= 1000

\* C11: once the scan is over, every occurrence of a random-monster tag t at p that is
\* followed in the buffer by a quantity q within the accepted range has exactly one
\* record, of type t, with quantity q and without a creature id.
C11_RandomTagYieldsOneRecord ==
    Scanned =>
        \A p \in 0..(Len(Buf) - 1) : \A t \in RandomTagSet :
            ( /\ TagAt(Buf, t, p)
              /\ p + 6 <= Len(Buf)
              /\ InRandomRange(Word(Buf, p + 4)) )
            => /\ Cardinality(RecordsAt(t, p)) = 1
               /\ \A i \in RecordsAt(t, p) :
                     /\ monsters[i].quantity = Word(Buf, p + 4)
                     /\ "subtype" \notin DOMAIN monsters[i]

----------------------------------------------------------------------------
(* C12 *)

\* the tag of the k-th signature pass, as documented
PassTag(k) == <<54, 71, 72, 73, 74, 75, 162, 163, 164>>[k]

\* the positions in the history of the evaluations of pass k at offset p
EvaluationsAt(k, p) ==
    {i \in DOMAIN evaluated : evaluated[i].sig = k /\ evaluated[i].off = p}

\* the occurrences of the tag of pass k that the scan has gone past: all of them once
\* the pass is over, those below the cursor while it runs, none before it starts
Passed(k, p) ==
    \/ Scanned
    \/ pc = "scan" /\ k < sigIx
    \/ pc = "scan" /\ k = sigIx /\ p < pos

\* C12: in each signature pass every occurrence of the tag is evaluated exactly once,
\* whatever became of the candidates before it, nothing else is evaluated, the
\* evaluations of a pass are in ascending offset order, and the cursor stands one byte
\* after the last match.
C12_EveryOccurrenceEvaluatedOnce ==
    data.some =>
        /\ \A p \in 0..(Len(Buf) - 4) :
              (Buf[p + 1] \in {54} \cup RandomTagSet /\ TagAt(Buf, Buf[p + 1], p))
                 => LET k == GroupOf(Buf[p + 1])
                    IN  Passed(k, p) => Cardinality(EvaluationsAt(k, p)) = 1
        /\ \A i \in DOMAIN evaluated :
              /\ evaluated[i].sig \in 1..9
              /\ TagAt(Buf, PassTag(evaluated[i].sig), evaluated[i].off)
              /\ Passed(evaluated[i].sig, evaluated[i].off)
        /\ \A i, j \in DOMAIN evaluated :
              i < j => \/ evaluated[i].sig < evaluated[j].sig
                       \/ /\ evaluated[i].sig = evaluated[j].sig
                          /\ evaluated[i].off < evaluated[j].off
        /\ pc = "scan" =>
              IF evaluated # <<>> /\ evaluated[Len(evaluated)].sig = sigIx
              THEN pos = evaluated[Len(evaluated)].off + 1
              ELSE pos = 0

\* a finished scan of a buffer with two occurrences of the concrete-monster tag four
\* bytes apart (the closest two occurrences can be), the first of them rejected
C12_Witness ==
    /\ Scanned
    /\ \E p \in 0..(Len(Buf) - 1) :
          /\ TagAt(Buf, 54, p) /\ TagAt(Buf, 54, p + 4)
          /\ RecordsAt(54, p) = {}
          /\ EvaluationsAt(1, p) # {} /\ EvaluationsAt(1, p + 4) # {}

----------------------------------------------------------------------------
(* C13 *)

\* one signature pass of copy v over d from cursor `from`, as a function: the list
\* acc with the records of the pass appended
RECURSIVE ScanPass(_, _, _, _, _)
ScanPass(v, k, d, from, acc) ==
    LET p == Find(d, ToBytes(Signatures[k], 4), from)
    IN  IF p = -1
        THEN acc
        ELSE LET c == IF k = 1 THEN MonsterCandidate(v, d, p)
                               ELSE RandomCandidate(v, Signatures[k], d, p)
             IN  ScanPass(v, k, d, Advance(p),
                          IF c = <<>> THEN acc ELSE AddRecord(acc, c[1]))

\* the passes k, k+1, ... of copy v over d, as a function
RECURSIVE ScanFrom(_, _, _, _)
ScanFrom(v, k, d, acc) ==
    IF k > Len(Signatures) THEN acc
    ELSE ScanFrom(v, k + 1, d, ScanPass(v, k, d, 0, acc))

\* the list that the copy v of the scan loops returns for the payload d
ScanResult(v, d) == ScanFrom(v, 1, d, <<>>)

\* the copy of the scan loops of RajanHoAEditor.parse_map_file that did not run
OtherLoadPath == IF variant = "gzip" THEN "raw" ELSE "gzip"

\* C13: the list RajanHoAEditor.parse_map_file returned for a payload is the list it
\* returns for the same payload read through the other load attempt.
C13_SameRecordsOnBothLoadPaths ==
    (Scanned /\ prog = "main") => monsters = ScanResult(OtherLoadPath, Buf)

----------------------------------------------------------------------------
(* C14 *)

\* one of the nine tags occurs at offset p of the buffer
AnyTagAt(p) ==
    /\ p >= 0 /\ p + 4 <= Len(Buf)
    /\ Buf[p + 1] \in {54} \cup RandomTagSet
    /\ Buf[p + 2] = 0 /\ Buf[p + 3] = 0 /\ Buf[p + 4] = 0

\* C14: two distinct offsets at which a tag occurs differ by at least 4 and no offset
\* matches two tags, in the buffer as in the matches the scan made; no two records
\* have the same match offset and there are at most len(buffer) div 4 records.
C14_MatchesNeverOverlap ==
    data.some =>
        /\ \A p \in 0..(Len(Buf) - 4) :
              AnyTagAt(p) =>
                 /\ \A d \in 1..3 : ~AnyTagAt(p + d)
                 /\ Cardinality({t \in {54} \cup RandomTagSet : TagAt(Buf, t, p)}) = 1
        /\ \A i, j \in DOMAIN evaluated :
              i # j => \/ evaluated[i].off - evaluated[j].off >= 4
                       \/ evaluated[j].off - evaluated[i].off >= 4
        /\ \A i, j \in DOMAIN monsters :
              i # j => monsters[i].off # monsters[j].off
        /\ Len(monsters) <= Len(Buf) \div 4

\* a finished scan that returned two records matched exactly four bytes apart
C14_Witness ==
    /\ Scanned
    /\ \E i, j \in DOMAIN monsters : monsters[j].off = monsters[i].off + 4

----------------------------------------------------------------------------
(* C15 *)

\* the positions in the history of the evaluations of pass k
EvaluationsOf(k) == {i \in DOMAIN evaluated : evaluated[i].sig = k}

\* C15: within a pass the cursor strictly increases from one iteration to the next,
\* no pass evaluates more than len(buffer) candidates, and every call comes to its end.
C15_ScanTerminates ==
    /\ [][(pc = "scan" /\ pc' = "scan" /\ sigIx' = sigIx) => pos' > pos]_vars
    /\ [](data.some => \A k \in 1..9 : Cardinality(EvaluationsOf(k)) <= Len(Buf))
    /\ <>(pc = "done")

\* a call that came to its end after a scan in which two or more candidates were
\* evaluated and every one of them was rejected
C15_Witness ==
    /\ pc = "done" /\ data.some
    /\ Len(evaluated) >= 2
    /\ monsters = <<>>

====
